---------------------------- MODULE Spec2Model ----------------------------
(***************************************************************************)
(* Activation patching, activation aggregation, tuned-lens calibration and *)
(* logit-lens decoding of graphcot/interp_utils.py as state machines.      *)
(*                                                                         *)
(* Tensors are modelled with batch size 1 and hidden dimension 1: an       *)
(* activation of shape [1, seq, d] is a sequence of integers, one per      *)
(* position.  Python positions are 0-based; TLA+ sequences are 1-based, so *)
(* position p of a tensor t is t[p + 1].                                   *)
(***************************************************************************)
EXTENDS Integers, Sequences, FiniteSets, TLC

VARIABLES
    op,                   \* which entry point of interp_utils.py was called
    pc,                   \* position inside that entry point
    \* ---- activation_patching
    n_layers,             \* model.cfg.n_layers
    attn_w,               \* the (trained, fixed) attention weight of the model
    clean_tokens,
    corrupted_tokens,
    comparison_index,
    clean_cache,          \* clean_cache of line 62
    clean_logit_diff,
    corrupted_logit_diff,
    patching_result,      \* patching_result[layer + 1][position + 1]
    layer,
    position,
    fwd_hooks,            \* hooks registered on the model between calls
    n_passes,             \* history: number of model.run_with_hooks calls so far
    writes,               \* history: number of assignments to each cell of the grid
    last_pass,            \* history: the latest model.run_with_hooks call
    \* ---- aggregate_activations and calculate_tuned_lens
    activation_keys,
    n_samples,
    attempt,              \* iterations of the sampling loop completed
    rejected,             \* history: attempts is_model_correct rejected
    agg_cache,
    graphs,
    gidx,                 \* graphs paired so far by calculate_tuned_lens
    X,
    y,
    translators,
    \* ---- logit_lens, logit_lens_correct_probs, logit_lens_all_probs
    pred,
    lens_position,        \* the argument `position` of the probability decoders
    neighbors,            \* token ids of the neighbours of the current node in pred
    lenses,
    lens_labels,          \* the labels get_example_cache returned to the decoder
    lens_cache,           \* the cache get_example_cache returned to the decoder
    lens_layer,           \* the loop variable `layer`
    outs,                 \* per-layer results: outs / probs
    lookups,              \* history: the probe points read from the cache, in order
    model_runs            \* history: forward passes of the model

patchVars == <<n_layers, attn_w, clean_tokens, corrupted_tokens, comparison_index,
               clean_cache, clean_logit_diff, corrupted_logit_diff,
               patching_result, layer, position, fwd_hooks, n_passes, writes,
               last_pass>>

aggVars == <<activation_keys, n_samples, attempt, rejected, agg_cache, graphs>>

tunedVars == <<gidx, X, y, translators>>

lensVars == <<pred, lens_position, neighbors, lenses, lens_labels, lens_cache, lens_layer,
              outs,
              lookups, model_runs>>

vars == <<op, pc, patchVars, aggVars, tunedVars, lensVars>>

-----------------------------------------------------------------------------
(* Bounds of the model *)

MaxLayers == 2
MaxLen == 3
MaxCorrupted == 2
MaxSamples == 2
MaxKeys == 2
max_seq_length == 5

(* dataset.idx2tokens: token id i (0-based) has label idx2tokens[i + 1] *)
idx2tokens == <<"A", "B", "C", "D", "X", ",", "|">>

d_vocab == Len(idx2tokens)

TokenIds == 0 .. (d_vocab - 1)

(* The attention weights a trained model may have *)
Weights == {1, 2}

(* Token ids the enumerated inputs are written with *)
InputTokenIds == {0, 4}

(* the positions at which two sequences of one length differ *)
Differing(c, k) == {p \in 1 .. Len(c) : c[p] # k[p]}

(* The (clean, corrupted, comparison_index) triples activation_patching is *)
(* called with: a clean sequence over InputTokenIds with a corrupted one   *)
(* of the same length that differs from it at no more than MaxCorrupted    *)
(* positions, and the end-to-end scenario [A,B,C,D] / [A,X,C,D] with       *)
(* comparison position 3.                                                  *)
ScenarioClean == <<0, 1, 2, 3>>

ScenarioCorrupted == <<0, 4, 2, 3>>

ScenarioInput == [clean |-> ScenarioClean, corrupted |-> ScenarioCorrupted, ci |-> 3]

PatchInputs ==
    {ScenarioInput}
    \cup
    UNION { { inp \in [clean : [1 .. len -> InputTokenIds],
                       corrupted : [1 .. len -> InputTokenIds],
                       ci : 0 .. (len - 1)] :
                Cardinality(Differing(inp.clean, inp.corrupted)) <= MaxCorrupted }
            : len \in 1 .. MaxLen }

-----------------------------------------------------------------------------
(* Python helpers *)

(* t[i] for a Python/torch index i into a dimension of size n: a negative  *)
(* index counts from the end.                                              *)
PyIndex(i, n) == IF i < 0 THEN i + n ELSE i

-----------------------------------------------------------------------------
(* transformer_lens names of hook points *)

get_act_name(name, lyr, layer_type) ==
    [block |-> lyr, point |-> layer_type, hook |-> name]

ResidPre(lyr) == get_act_name("resid_pre", lyr, "")

Ln1Normalized(lyr) == get_act_name("normalized", lyr, "ln1")

(* "ln_final.hook_normalized" is outside every block: block -1 *)
LnFinalNormalized == [block |-> -1, point |-> "ln_final", hook |-> "normalized"]

-----------------------------------------------------------------------------
(* The HookedTransformer of training.py: causal attention, one head, an    *)
(* MLP per block, residual connections, a final layer norm and an          *)
(* unembedding.                                                            *)

LayerNorm(v) == v % 7

RECURSIVE LayerNormFrom(_, _, _)
LayerNormFrom(x, p, out) ==
    IF p > Len(x) THEN out ELSE LayerNormFrom(x, p + 1, Append(out, LayerNorm(x[p])))

(* the layer norm of every position *)
LayerNormAll(x) == LayerNormFrom(x, 1, << >>)

RECURSIVE EmbedFrom(_, _, _)
EmbedFrom(tokens, p, out) ==
    IF p > Len(tokens) THEN out
    ELSE EmbedFrom(tokens, p + 1, Append(out, 3 * tokens[p] + 1 + 2 * (p - 1)))

(* token embedding plus positional embedding *)
Embed(tokens) == EmbedFrom(tokens, 1, << >>)

(* One block: position p attends to positions <= p only (attention_dir =   *)
(* "causal"; attended is the sum of the normalized inputs of positions     *)
(* < p), then the MLP acts on the position alone.                          *)
RECURSIVE BlockFrom(_, _, _, _, _)
BlockFrom(w, x, p, attended, out) ==
    IF p > Len(x) THEN out
    ELSE LET a == attended + LayerNorm(x[p])
         IN  BlockFrom(w, x, p + 1, a, Append(out, x[p] + w * a + ((x[p] * x[p]) % 5)))

Block(w, x) == BlockFrom(w, x, 1, 0, << >>)

W_U == [v \in TokenIds |-> v * v + 1]

b_U == [v \in TokenIds |-> v % 2]

RECURSIVE UnembedFrom(_, _, _)
UnembedFrom(x, p, out) ==
    IF p > Len(x) THEN out
    ELSE UnembedFrom(x, p + 1,
                     Append(out, [v \in TokenIds |-> LayerNorm(x[p]) * W_U[v] + b_U[v]]))

(* final layer norm and unembedding: logits[p + 1][v] *)
Unembed(x) == UnembedFrom(x, 1, << >>)

(* Variant: the whole activation is overwritten with the clean one.        *)
hook_overwriting_every_position(resid_pre, name, pos, cache) ==
    [resid_pre |-> cache[name], clean_cache |-> cache]

(* Variant: the clean value is read one position early. *)
hook_reading_previous_position(resid_pre, name, pos, cache) ==
    [resid_pre |-> [resid_pre EXCEPT ![pos + 1] =
                        cache[name][PyIndex(pos - 1, Len(resid_pre)) + 1]],
     clean_cache |-> cache]

(* residual_stream_patching_hook (lines 73-80): resid_pre and clean_cache  *)
(* are the two tensors the closure can reach; it returns both as they are  *)
(* after the call.                                                         *)
residual_stream_patching_hook(resid_pre, name, pos, cache) ==
    [resid_pre |-> [resid_pre EXCEPT ![pos + 1] = cache[name][pos + 1]],
     clean_cache |-> cache]

(* The hooks of `hooks` bound to hook point `name` act in registration     *)
(* order on the live activation x.                                         *)
RECURSIVE ApplyHooks(_, _, _, _, _)
ApplyHooks(x, name, hooks, cache, trace) ==
    IF hooks = << >> THEN [x |-> x, cache |-> cache, trace |-> trace]
    ELSE LET h == Head(hooks)
         IN  IF h.name = name
             THEN LET r == residual_stream_patching_hook(x, name, h.position, cache)
                  IN  ApplyHooks(r.resid_pre, name, Tail(hooks), r.clean_cache,
                                 Append(trace, [name |-> name, position |-> h.position,
                                                before |-> x, after |-> r.resid_pre]))
             ELSE ApplyHooks(x, name, Tail(hooks), cache, trace)

(* The forward pass from block lyr on: x is the residual stream entering   *)
(* block lyr.  acts collects the activations a cache would hold.           *)
RECURSIVE RunBlocks(_, _, _, _, _, _, _, _)
RunBlocks(x, lyr, n, w, hooks, cache, trace, acts) ==
    IF lyr = n
    THEN [logits |-> Unembed(x), cache |-> cache, trace |-> trace,
          acts |-> acts @@ (LnFinalNormalized :> LayerNormAll(x))]
    ELSE LET hooked == ApplyHooks(x, ResidPre(lyr), hooks, cache, trace)
             resid_pre == hooked.x
         IN  RunBlocks(Block(w, resid_pre), lyr + 1, n, w, hooks, hooked.cache,
                       hooked.trace,
                       acts @@ (ResidPre(lyr) :> resid_pre)
                            @@ (Ln1Normalized(lyr) :> LayerNormAll(resid_pre)))

EmptyCache == [k \in {} |-> << >>]

(* model(tokens) *)
Forward(tokens, n, w) ==
    RunBlocks(Embed(tokens), 0, n, w, << >>, EmptyCache, << >>, EmptyCache).logits

(* model.run_with_cache(tokens) *)
run_with_cache(tokens, n, w) ==
    LET r == RunBlocks(Embed(tokens), 0, n, w, << >>, EmptyCache, << >>, EmptyCache)
    IN  [logits |-> r.logits, cache |-> r.acts]

(* Variant: the hooks of a pass stay registered after it. *)
run_with_hooks_keeping_hooks(tokens, n, w, registered, new, cache) ==
    LET active == registered \o new
        r == RunBlocks(Embed(tokens), 0, n, w, active, cache, << >>, EmptyCache)
    IN  [logits |-> r.logits, cache |-> r.cache, trace |-> r.trace,
         active |-> active, registered |-> active]

(* model.run_with_hooks(tokens, fwd_hooks=new): the new hooks are added to *)
(* those registered, the pass runs, and the hooks are removed again.       *)
run_with_hooks(tokens, n, w, registered, new, cache) ==
    LET active == registered \o new
        r == RunBlocks(Embed(tokens), 0, n, w, active, cache, << >>, EmptyCache)
    IN  [logits |-> r.logits, cache |-> r.cache, trace |-> r.trace,
         active |-> active, registered |-> << >>]

-----------------------------------------------------------------------------
(* activation_patching *)

(* Variant: the incorrect token is read one position early. *)
logit_diff_incorrect_token_one_early(clean, corrupted, logits, ci) ==
    LET correct_index == clean[ci + 1]
        incorrect_index == corrupted[PyIndex(ci - 1, Len(corrupted)) + 1]
        row == logits[PyIndex(ci - 1, Len(logits)) + 1]
    IN  row[correct_index] - row[incorrect_index]

(* logits_to_logit_diff (lines 54-57) *)
logits_to_logit_diff(clean, corrupted, logits, ci) ==
    LET correct_index == clean[ci + 1]
        incorrect_index == corrupted[ci + 1]
        row == logits[PyIndex(ci - 1, Len(logits)) + 1]
    IN  row[correct_index] - row[incorrect_index]

(* A torch scalar: a finite value is the fraction num/den; a division by   *)
(* zero gives inf or nan, not an exception.                                *)
TorchDiv(num, den) ==
    IF den # 0 THEN [kind |-> "finite", num |-> num, den |-> den]
    ELSE IF num = 0 THEN [kind |-> "nan", num |-> 0, den |-> 0]
    ELSE [kind |-> "inf", num |-> num, den |-> 0]

(* Variant: the zero denominator is not replaced. *)
normalize_ratio_unguarded(clean_diff, corrupted_diff) == clean_diff - corrupted_diff

(* lines 95-97 *)
normalize_ratio(clean_diff, corrupted_diff) ==
    IF clean_diff - corrupted_diff = 0 THEN 1 ELSE clean_diff - corrupted_diff

NoPass == [layer |-> -1]

Zero == [kind |-> "finite", num |-> 0, den |-> 1]

IdlePatch ==
    /\ clean_tokens = << >>
    /\ corrupted_tokens = << >>
    /\ comparison_index = 0
    /\ clean_cache = EmptyCache
    /\ clean_logit_diff = 0
    /\ corrupted_logit_diff = 0
    /\ patching_result = << >>
    /\ layer = 0
    /\ position = 0
    /\ fwd_hooks = << >>
    /\ n_passes = 0
    /\ writes = << >>
    /\ last_pass = NoPass

IdleAgg ==
    /\ activation_keys = << >>
    /\ n_samples = 0
    /\ attempt = 0
    /\ rejected = 0
    /\ agg_cache = EmptyCache
    /\ graphs = << >>

IdleTuned ==
    /\ gidx = 0
    /\ X = EmptyCache
    /\ y = << >>
    /\ translators = EmptyCache

NoLenses == [is_none |-> TRUE, dict |-> EmptyCache]

IdleLens ==
    /\ pred = [prefix |-> 0, answer |-> 0, correct |-> TRUE]
    /\ lens_position = 0
    /\ neighbors = {}
    /\ lenses = NoLenses
    /\ lens_labels = << >>
    /\ lens_cache = EmptyCache
    /\ lens_layer = 0
    /\ outs = << >>
    /\ lookups = << >>
    /\ model_runs = 0

InitPatch ==
    /\ op = "activation_patching"
    /\ IdleAgg /\ IdleTuned /\ IdleLens
    /\ pc = "start"
    /\ n_layers \in 1 .. MaxLayers
    /\ attn_w \in Weights
    /\ \E inp \in PatchInputs :
          /\ clean_tokens = inp.clean
          /\ corrupted_tokens = inp.corrupted
          /\ comparison_index = inp.ci
    /\ clean_cache = EmptyCache
    /\ clean_logit_diff = 0
    /\ corrupted_logit_diff = 0
    /\ patching_result = << >>
    /\ layer = 0
    /\ position = 0
    /\ fwd_hooks = << >>
    /\ n_passes = 0
    /\ writes = << >>
    /\ last_pass = NoPass

(* lines 62-64 *)
CleanRun ==
    /\ op = "activation_patching" /\ pc = "start"
    /\ \E r \in {run_with_cache(clean_tokens, n_layers, attn_w)} :
           /\ clean_cache' = r.cache
           /\ clean_logit_diff' = logits_to_logit_diff(clean_tokens, corrupted_tokens,
                                                       r.logits, comparison_index)
    /\ pc' = "clean_done"
    /\ UNCHANGED <<aggVars, tunedVars, lensVars, op, n_layers, attn_w, clean_tokens,
                   corrupted_tokens, comparison_index,
                   corrupted_logit_diff, patching_result, layer, position, fwd_hooks,
                   n_passes, writes, last_pass>>

(* lines 67-83 *)
CorruptedRun ==
    /\ op = "activation_patching" /\ pc = "clean_done"
    /\ corrupted_logit_diff' =
          logits_to_logit_diff(clean_tokens, corrupted_tokens,
                               Forward(corrupted_tokens, n_layers, attn_w),
                               comparison_index)
    /\ patching_result' = [l \in 1 .. n_layers |->
                              [p \in 1 .. Len(clean_tokens) |-> Zero]]
    /\ writes' = [l \in 1 .. n_layers |-> [p \in 1 .. Len(clean_tokens) |-> 0]]
    /\ layer' = 0
    /\ position' = 0
    /\ pc' = "scan"
    /\ UNCHANGED <<aggVars, tunedVars, lensVars, op, n_layers, attn_w, clean_tokens,
                   corrupted_tokens, comparison_index,
                   clean_cache, clean_logit_diff, fwd_hooks, n_passes, last_pass>>

(* one iteration of the loops of lines 84-98 *)
PatchPass ==
    /\ op = "activation_patching" /\ pc = "scan"
    /\ layer < n_layers
    /\ \E r \in {run_with_hooks(corrupted_tokens, n_layers, attn_w, fwd_hooks,
                                 <<[name |-> ResidPre(layer), position |-> position]>>,
                                 clean_cache)} :
       LET num_positions == Len(clean_tokens)
           patched_logit_diff == logits_to_logit_diff(clean_tokens, corrupted_tokens,
                                                      r.logits, comparison_index)
           ratio == normalize_ratio(clean_logit_diff, corrupted_logit_diff)
       IN  /\ clean_cache' = r.cache
           /\ fwd_hooks' = r.registered
           /\ patching_result' =
                 [patching_result EXCEPT ![layer + 1][position + 1] =
                     TorchDiv(patched_logit_diff - corrupted_logit_diff, ratio)]
           /\ writes' = [writes EXCEPT ![layer + 1][position + 1] = @ + 1]
           /\ n_passes' = n_passes + 1
           /\ last_pass' = [layer |-> layer, position |-> position,
                            tokens |-> corrupted_tokens, hooks |-> r.active,
                            trace |-> r.trace, logits |-> r.logits,
                            cache_before |-> clean_cache]
           /\ IF position + 1 < num_positions
              THEN /\ position' = position + 1
                   /\ layer' = layer
              ELSE /\ position' = 0
                   /\ layer' = layer + 1
    /\ pc' = "scan"
    /\ UNCHANGED <<aggVars, tunedVars, lensVars, op, n_layers, attn_w, clean_tokens,
                   corrupted_tokens, comparison_index,
                   clean_logit_diff, corrupted_logit_diff>>

(* line 99 *)
PatchReturn ==
    /\ op = "activation_patching" /\ pc = "scan"
    /\ layer = n_layers
    /\ pc' = "done"
    /\ UNCHANGED <<op, patchVars, aggVars, tunedVars, lensVars>>

NextPatch == CleanRun \/ CorruptedRun \/ PatchPass \/ PatchReturn

SpecPatch == InitPatch /\ [][NextPatch]_vars

-----------------------------------------------------------------------------
(* Properties of activation_patching *)

Patching == op = "activation_patching"

(* the baselines, recomputed from the inputs *)
CleanDiff ==
    logits_to_logit_diff(clean_tokens, corrupted_tokens,
                         run_with_cache(clean_tokens, n_layers, attn_w).logits,
                         comparison_index)

CorruptedDiff ==
    logits_to_logit_diff(clean_tokens, corrupted_tokens,
                         Forward(corrupted_tokens, n_layers, attn_w), comparison_index)

PatchedDiff ==
    logits_to_logit_diff(clean_tokens, corrupted_tokens, last_pass.logits,
                         comparison_index)

Cell(l, p) == patching_result[l + 1][p + 1]

LastCell == Cell(last_pass.layer, last_pass.position)

Passed == Patching /\ last_pass # NoPass

(* a/b > c/d for finite scores *)
ScoreGreater(a, b) ==
    IF a.den * b.den > 0 THEN a.num * b.den > b.num * a.den
    ELSE a.num * b.den < b.num * a.den

(* C1: the cell written by a pass holds (patchedDiff - corruptedDiff) /     *)
(* (cleanDiff - corruptedDiff) when the baselines differ and patchedDiff - *)
(* corruptedDiff (denominator 1) when they coincide; in both cases it is a *)
(* finite number, never the inf or nan of a division by zero.              *)
C1_NormalizedScore ==
    Passed =>
        /\ LastCell.kind = "finite"
        /\ LastCell.num = PatchedDiff - CorruptedDiff
        /\ LastCell.den = (IF CleanDiff = CorruptedDiff THEN 1
                           ELSE CleanDiff - CorruptedDiff)

(* the degenerate denominator with tokens that differ at comparison_index  *)
(* and a patch that moves the logit difference                             *)
C1_Witness ==
    /\ Passed
    /\ clean_tokens[comparison_index + 1] # corrupted_tokens[comparison_index + 1]
    /\ CleanDiff = CorruptedDiff
    /\ PatchedDiff # CorruptedDiff

(* C2: with clean identical to corrupted every hooked pass returns the     *)
(* logits of the corrupted run, the denominator-zero path is taken and the *)
(* cell it writes is 0; on return every cell is 0.                         *)
C2_IdenticalPairScoresZero ==
    (Patching /\ clean_tokens = corrupted_tokens) =>
        /\ last_pass # NoPass =>
              /\ last_pass.logits = Forward(corrupted_tokens, n_layers, attn_w)
              /\ LastCell = [kind |-> "finite", num |-> 0, den |-> 1]
        /\ pc = "done" =>
              \A l \in 0 .. (n_layers - 1), p \in 0 .. (Len(clean_tokens) - 1) :
                  Cell(l, p).kind = "finite" /\ Cell(l, p).num = 0

C2_Witness ==
    /\ Patching /\ pc = "done"
    /\ clean_tokens = corrupted_tokens
    /\ Len(clean_tokens) > 1 /\ n_layers > 1

(* C3: the grid has shape [n_layers, num_positions]; the scan has issued   *)
(* one hooked pass of the corrupted sequence per (layer, position) before  *)
(* the loop position, each with exactly one hook, bound to resid_pre of    *)
(* its layer and to its position; each of those cells was written once and *)
(* no other cell was written; no hook stays registered after a pass.       *)
C3_OnePassPerCell ==
    (Patching /\ pc \in {"scan", "done"}) =>
        LET num_positions == Len(clean_tokens)
            done_before(l, p) == l * num_positions + p < layer * num_positions + position
        IN  /\ Len(patching_result) = n_layers
            /\ \A l \in 1 .. n_layers : Len(patching_result[l]) = num_positions
            /\ n_passes = layer * num_positions + position
            /\ pc = "done" => n_passes = n_layers * num_positions
            /\ \A l \in 0 .. (n_layers - 1), p \in 0 .. (num_positions - 1) :
                  writes[l + 1][p + 1] = (IF done_before(l, p) THEN 1 ELSE 0)
            /\ fwd_hooks = << >>
            /\ last_pass # NoPass =>
                  /\ last_pass.tokens = corrupted_tokens
                  /\ last_pass.hooks = <<[name |-> ResidPre(last_pass.layer),
                                          position |-> last_pass.position]>>
                  /\ last_pass.layer * num_positions + last_pass.position + 1 = n_passes

C3_Witness ==
    /\ Patching /\ pc = "done"
    /\ n_layers = 2 /\ Len(clean_tokens) = 3
    /\ n_passes = 6

(* C4: in the pass for (L, P) the hook runs once, on resid_pre of layer L  *)
(* of the corrupted run; after it position P holds the clean cache's value *)
(* of that hook point and position and every other position holds what it *)
(* held before; the clean cache is, after every step of the scan, the      *)
(* cache the clean run produced.                                           *)
C4_HookPatchesOnePosition ==
    (Patching /\ pc # "start") =>
        LET captured == run_with_cache(clean_tokens, n_layers, attn_w).cache
        IN  /\ clean_cache = captured
            /\ last_pass # NoPass =>
                  /\ last_pass.cache_before = captured
                  /\ Len(last_pass.trace) = 1
                  /\ LET t == last_pass.trace[1]
                         P == last_pass.position
                     IN  /\ t.name = ResidPre(last_pass.layer)
                         /\ t.position = P
                         /\ Len(t.after) = Len(corrupted_tokens)
                         /\ Len(t.before) = Len(corrupted_tokens)
                         /\ t.after[P + 1] = captured[t.name][P + 1]
                         /\ \A q \in 1 .. Len(t.before) :
                               q # P + 1 => t.after[q] = t.before[q]

(* a pass whose hook changed position P, with other positions that differ  *)
(* between the two runs left alone                                         *)
C4_Witness ==
    /\ Passed
    /\ LET t == last_pass.trace[1]
       IN  /\ t.after[last_pass.position + 1] # t.before[last_pass.position + 1]
           /\ \E q \in 1 .. Len(t.before) :
                 /\ q # last_pass.position + 1
                 /\ t.before[q] # clean_cache[t.name][q]

ScenarioDone ==
    /\ Patching /\ pc = "done"
    /\ n_layers = 2
    /\ clean_tokens = ScenarioClean
    /\ corrupted_tokens = ScenarioCorrupted
    /\ comparison_index = 3

(* C5 as stated: in the scenario, cell (0, 1) is larger than every other   *)
(* cell and the layer-0 cells at positions 0, 2 and 3 are 0.               *)
C5_Stated ==
    ScenarioDone =>
        /\ \A l \in 0 .. 1, p \in 0 .. 3 :
              <<l, p>> # <<0, 1>> => ScoreGreater(Cell(0, 1), Cell(l, p))
        /\ \A p \in {0, 2, 3} : Cell(0, p).num = 0

(* C5 as amended: in the scenario the clean and corrupted tokens at        *)
(* comparison position 3 are both D, so every logit difference is 0 and    *)
(* every cell is 0: no cell exceeds cell (0, 1), cell (0, 1) exceeds none, *)
(* and the layer-0 cells at positions 0, 2 and 3 are 0.                    *)
C5_ScenarioAllZero ==
    ScenarioDone =>
        /\ \A l \in 0 .. 1, p \in 0 .. 3 :
              /\ Cell(l, p).kind = "finite"
              /\ ~ScoreGreater(Cell(l, p), Cell(0, 1))
              /\ ~ScoreGreater(Cell(0, 1), Cell(l, p))
        /\ \A p \in {0, 2, 3} : Cell(0, p).num = 0

C5_Witness == ScenarioDone /\ Cell(0, 1).num = 0

-----------------------------------------------------------------------------
(* The dataset and the helpers of graphcot/utils.py *)

(* dataset.tokens2idx *)
tokens2idx(label) == CHOOSE i \in TokenIds : idx2tokens[i + 1] = label

(* dataset.start_token *)
start_token == tokens2idx("|")

(* s[a:b] of Python for a sequence s *)
PySlice(s, a, b) ==
    LET n == Len(s)
        clamp(i) == IF PyIndex(i, n) < 0 THEN 0
                    ELSE IF PyIndex(i, n) > n THEN n ELSE PyIndex(i, n)
    IN  SubSeq(s, clamp(a) + 1, clamp(b))

(* A task instance: `prefix` graph tokens, the start marker, `answer` path  *)
(* tokens, padded with "," to max_seq_length; `correct` is whether the     *)
(* (fixed) model answers it correctly.  The instances drawn have no or one *)
(* graph token, and a path that fills the sequence, leaves two padding     *)
(* tokens, or is empty.                                                    *)
Instances ==
    { g \in [prefix : 0 .. 1, answer : 0 .. (max_seq_length - 1), correct : BOOLEAN] :
        g.answer \in {0, max_seq_length - 3 - g.prefix, max_seq_length - 1 - g.prefix} }

(* dataset.tokenize(graph) *)
tokenize(g) ==
    [p \in 1 .. max_seq_length |->
        IF p <= g.prefix THEN tokens2idx("A")
        ELSE IF p = g.prefix + 1 THEN start_token
        ELSE IF p <= g.prefix + 1 + g.answer THEN 1 + ((p - g.prefix - 2) % 3)
        ELSE tokens2idx(",")]

(* is_model_correct(model, dataset, graph) *)
is_model_correct(g) == g.correct

(* labels of a token sequence *)
LabelsOf(tokens) == [p \in 1 .. Len(tokens) |-> idx2tokens[tokens[p] + 1]]

(* get_example_cache(pred, model, dataset): the model is run on the tokens *)
(* of pred without the last one (n_ctx = max_seq_length - 1).              *)
get_example_cache(g, n, w) ==
    LET tokens == PySlice(tokenize(g), 0, -1)
    IN  [labels |-> LabelsOf(tokens), cache |-> run_with_cache(tokens, n, w).cache]

(* num_last(labels, char): the index after the last label that is not char *)
RECURSIVE num_last_from(_, _, _)
num_last_from(labels, char, last_idx) ==
    IF last_idx >= 0 /\ labels[last_idx + 1] = char
    THEN num_last_from(labels, char, last_idx - 1)
    ELSE last_idx + 1

num_last(labels, char) == num_last_from(labels, char, Len(labels) - 1)

(* LinearClsProbe(fit_intercept=False).fit(X, y), then model.weight.data:  *)
(* a [vocabulary, hidden] matrix; the weight of a class is the sum of the  *)
(* rows labelled with it.                                                  *)
RECURSIVE ClassSum(_, _, _)
ClassSum(rows, labels, v) ==
    IF rows = << >> \/ labels = << >> THEN 0
    ELSE (IF Head(labels) = v THEN Head(rows) ELSE 0)
         + ClassSum(Tail(rows), Tail(labels), v)

fit(rows, labels) == [v \in TokenIds |-> <<ClassSum(rows, labels, v)>>]

-----------------------------------------------------------------------------
(* aggregate_activations *)

Range(s) == {s[i] : i \in 1 .. Len(s)}

RECURSIVE SeqsUpTo(_, _)
SeqsUpTo(S, n) ==
    IF n = 0 THEN {<< >>}
    ELSE LET shorter == SeqsUpTo(S, n - 1)
         IN  shorter \cup {Append(q, e) : q \in shorter, e \in S}

(* the probe points a caller may ask for, in any order, repeated or not *)
KeyLists == SeqsUpTo({ResidPre(0), LnFinalNormalized}, MaxKeys)

(* lines 126-127 *)
RECURSIVE append_activations(_, _, _)
append_activations(acc, keys, cache) ==
    IF keys = << >> THEN acc
    ELSE append_activations([acc EXCEPT ![Head(keys)] = Append(@, cache[Head(keys)])],
                            Tail(keys), cache)

(* Variant: the verdict of is_model_correct is ignored. *)
aggregate_example_unfiltered(acc, gs, keys, test_graph, n, w) ==
    [agg_cache |->
         append_activations(acc, keys, get_example_cache(test_graph, n, w).cache),
     graphs |-> Append(gs, test_graph)]

(* Variant: an accepted instance is put in front of the instance list. *)
aggregate_example_prepending(acc, gs, keys, test_graph, n, w) ==
    IF ~is_model_correct(test_graph)
    THEN [agg_cache |-> acc, graphs |-> gs]
    ELSE [agg_cache |->
              append_activations(acc, keys, get_example_cache(test_graph, n, w).cache),
          graphs |-> <<test_graph>> \o gs]

(* lines 120-127: one iteration of the sampling loop on test_graph *)
aggregate_example(acc, gs, keys, test_graph, n, w) ==
    IF ~is_model_correct(test_graph)
    THEN [agg_cache |-> acc, graphs |-> gs]
    ELSE [agg_cache |->
              append_activations(acc, keys, get_example_cache(test_graph, n, w).cache),
          graphs |-> Append(gs, test_graph)]

(* lines 110-111 *)
StartAggregate(keys) ==
    /\ activation_keys = keys
    /\ n_samples \in 0 .. MaxSamples
    /\ attempt = 0
    /\ rejected = 0
    /\ agg_cache = [ak \in Range(keys) |-> << >>]
    /\ graphs = << >>
    /\ pc = "sampling"

InitAgg ==
    /\ op = "aggregate_activations"
    /\ n_layers \in 1 .. MaxLayers
    /\ attn_w \in Weights
    /\ \E keys \in KeyLists : StartAggregate(keys)
    /\ IdlePatch /\ IdleTuned /\ IdleLens

(* lines 112-127: generate_example draws any instance *)
AggAttempt ==
    /\ op \in {"aggregate_activations", "calculate_tuned_lens"} /\ pc = "sampling"
    /\ attempt < n_samples
    /\ \E test_graph \in Instances :
          \E r \in {aggregate_example(agg_cache, graphs, activation_keys, test_graph,
                                      n_layers, attn_w)} :
             /\ agg_cache' = r.agg_cache
             /\ graphs' = r.graphs
             /\ rejected' = rejected + (IF is_model_correct(test_graph) THEN 0 ELSE 1)
    /\ attempt' = attempt + 1
    /\ UNCHANGED <<op, pc, patchVars, tunedVars, lensVars, activation_keys, n_samples>>

(* line 128, and lines 237-238 for calculate_tuned_lens *)
AggReturn ==
    /\ op \in {"aggregate_activations", "calculate_tuned_lens"} /\ pc = "sampling"
    /\ attempt = n_samples
    /\ IF op = "aggregate_activations"
       THEN pc' = "done" /\ UNCHANGED tunedVars
       ELSE /\ pc' = "pairing"
            /\ X' = [key \in DOMAIN agg_cache |-> << >>]
            /\ y' = << >>
            /\ UNCHANGED <<gidx, translators>>
    /\ UNCHANGED <<op, patchVars, aggVars, lensVars>>

-----------------------------------------------------------------------------
(* calculate_tuned_lens *)

RECURSIVE BlockKeysFrom(_, _)
BlockKeysFrom(block, n) ==
    IF block >= n THEN << >>
    ELSE <<Ln1Normalized(block)>> \o BlockKeysFrom(block + 1, n)

(* Variant: the keys are those of the inputs of blocks 0 .. n - 1. *)
TunedLensKeysOfAllBlocks(n) == BlockKeysFrom(0, n)

(* lines 231-232 *)
TunedLensKeys(n) == BlockKeysFrom(1, n) \o <<LnFinalNormalized>>

InitTuned ==
    /\ op = "calculate_tuned_lens"
    /\ n_layers \in 1 .. MaxLayers
    /\ attn_w \in Weights
    /\ StartAggregate(TunedLensKeys(n_layers))
    /\ IdlePatch /\ IdleTuned /\ IdleLens

(* line 242: the position of the one start marker, plus 2 *)
StartIdx(tokens) == (CHOOSE i \in 0 .. (Len(tokens) - 1) : tokens[i + 1] = start_token) + 2

(* line 245 *)
tuned_labels(tokens, start_idx, end_idx) == PySlice(tokens, start_idx, end_idx)

(* Variant: the rows are taken at the positions of the labels. *)
tuned_streams_unshifted(activation, start_idx, end_idx) ==
    PySlice(activation, start_idx, end_idx)

(* line 248 *)
tuned_streams(activation, start_idx, end_idx) ==
    PySlice(activation, start_idx - 1, end_idx - 1)

(* lines 239-249: one iteration of the loop over graphs *)
TunedPair ==
    /\ op = "calculate_tuned_lens" /\ pc = "pairing"
    /\ gidx < Len(graphs)
    /\ LET graph == graphs[gidx + 1]
           tokens == PySlice(tokenize(graph), 0, -1)
           start_idx == StartIdx(tokens)
           end_idx == num_last(LabelsOf(tokens), ",")
       IN  /\ y' = Append(y, tuned_labels(tokens, start_idx, end_idx))
           /\ X' = [key \in DOMAIN X |->
                       Append(X[key], tuned_streams(agg_cache[key][gidx + 1],
                                                    start_idx, end_idx))]
    /\ gidx' = gidx + 1
    /\ UNCHANGED <<op, pc, patchVars, aggVars, lensVars, translators>>

RECURSIVE Concat(_)
Concat(chunks) == IF chunks = << >> THEN << >> ELSE Head(chunks) \o Concat(Tail(chunks))

(* lines 251-253: torch.cat and np.concatenate raise on an empty list *)
TunedConcat ==
    /\ op = "calculate_tuned_lens" /\ pc = "pairing"
    /\ gidx = Len(graphs)
    /\ IF graphs = << >>
       THEN pc' = "raised" /\ UNCHANGED <<X, y>>
       ELSE /\ X' = [key \in DOMAIN X |-> Concat(X[key])]
            /\ y' = Concat(y)
            /\ pc' = "fitting"
    /\ UNCHANGED <<op, patchVars, aggVars, lensVars, gidx, translators>>

(* W.T of line 261: [vocabulary, hidden] to [hidden, vocabulary] *)
Transpose(W) == [h \in 1 .. 1 |-> [v \in DOMAIN W |-> W[v][h]]]

(* lines 255-263 *)
TunedFit ==
    /\ op = "calculate_tuned_lens" /\ pc = "fitting"
    /\ translators' = [key \in DOMAIN X |-> Transpose(fit(X[key], y))]
    /\ pc' = "done"
    /\ UNCHANGED <<op, patchVars, aggVars, lensVars, gidx, X, y>>

NextCalib == AggAttempt \/ AggReturn \/ TunedPair \/ TunedConcat \/ TunedFit

InitCalib == InitAgg \/ InitTuned

SpecCalib == InitCalib /\ [][NextCalib]_vars

-----------------------------------------------------------------------------
(* Properties of aggregate_activations and calculate_tuned_lens *)

Aggregating == op \in {"aggregate_activations", "calculate_tuned_lens"}

CacheOf(g) == get_example_cache(g, n_layers, attn_w).cache

(* how often key is listed in activation_keys *)
Listed(key) == Cardinality({i \in 1 .. Len(activation_keys) : activation_keys[i] = key})

(* C6: every instance of the instance list was accepted by                 *)
(* is_model_correct and every tensor of every per-probe-point list is the  *)
(* activation of an instance of the list; an attempt that is rejected      *)
(* changes neither accumulator.                                            *)
C6_OnlyAcceptedInstances ==
    /\ [](Aggregating =>
            /\ \A i \in 1 .. Len(graphs) : is_model_correct(graphs[i])
            /\ \A key \in DOMAIN agg_cache : \A j \in 1 .. Len(agg_cache[key]) :
                  \E i \in 1 .. Len(graphs) : agg_cache[key][j] = CacheOf(graphs[i])[key])
    /\ [][rejected' # rejected => (graphs' = graphs /\ agg_cache' = agg_cache)]_vars

(* an accepted instance recorded after a rejected attempt *)
C6_Witness ==
    /\ Aggregating
    /\ rejected > 0
    /\ Len(graphs) > 0
    /\ activation_keys # << >>

Returned == Aggregating /\ pc # "sampling"

(* C7 as stated: exactly n_samples attempts are made; on return the        *)
(* instance list and every per-probe-point list have the length of the     *)
(* number of accepted attempts, and the i-th tensor of a list is that of   *)
(* the i-th instance.                                                      *)
C7_Stated ==
    Aggregating =>
        /\ attempt <= n_samples
        /\ Returned =>
              /\ attempt = n_samples
              /\ Len(graphs) = n_samples - rejected
              /\ \A key \in DOMAIN agg_cache :
                    /\ Len(agg_cache[key]) = Len(graphs)
                    /\ \A i \in 1 .. Len(graphs) :
                          agg_cache[key][i] = CacheOf(graphs[i])[key]

(* C7 as amended: exactly n_samples attempts are made; on return the       *)
(* instance list has the length of the number of accepted attempts, and    *)
(* the list of a probe point that is listed k times in activation_keys     *)
(* holds k tensors per accepted instance, in the order of the instance     *)
(* list: for probe points listed once each, as calculate_tuned_lens lists  *)
(* them, all lists have the length of the instance list and the i-th       *)
(* tensor is that of the i-th instance.                                    *)
C7_ParallelLists ==
    Aggregating =>
        /\ attempt <= n_samples
        /\ Returned =>
              /\ attempt = n_samples
              /\ Len(graphs) = n_samples - rejected
              /\ DOMAIN agg_cache = Range(activation_keys)
              /\ \A key \in DOMAIN agg_cache :
                    /\ Len(agg_cache[key]) = Listed(key) * Len(graphs)
                    /\ \A i \in 1 .. Len(graphs) : \A c \in 1 .. Listed(key) :
                          agg_cache[key][(i - 1) * Listed(key) + c]
                              = CacheOf(graphs[i])[key]

(* a return with two different accepted instances, each probe point      *)
(* listed once                                                            *)
C7_Witness ==
    /\ Returned
    /\ Len(graphs) = 2
    /\ graphs[1] # graphs[2]
    /\ activation_keys # << >>
    /\ \A key \in DOMAIN agg_cache : Listed(key) = 1

TunedTokens(g) == PySlice(tokenize(g), 0, -1)

(* C10: for the i-th accepted instance and every probe point, the rows     *)
(* taken are those of positions start_idx - 1 .. end_idx - 2, as many as   *)
(* the labels tokens[start_idx .. end_idx - 1], and the row of position p  *)
(* is paired with the token at position p + 1; after concatenation every   *)
(* probe point has as many rows as there are labels.                       *)
C10_RowsPairedWithNextToken ==
    (op = "calculate_tuned_lens") =>
        /\ pc = "pairing" =>
              \A i \in 1 .. gidx : \A key \in DOMAIN X :
                  LET tokens == TunedTokens(graphs[i])
                      marker == CHOOSE q \in 0 .. (Len(tokens) - 1) :
                                    tokens[q + 1] = start_token
                      rows == X[key][i]
                  IN  /\ Len(rows) = Len(y[i])
                      /\ \A j \in 1 .. Len(rows) :
                            LET p == marker + j
                            IN  /\ rows[j] = CacheOf(graphs[i])[key][p + 1]
                                /\ y[i][j] = tokens[p + 2]
        /\ pc \in {"fitting", "done"} =>
              \A key \in DOMAIN X : Len(X[key]) = Len(y)

(* two instances paired, one of them with two rows *)
C10_Witness ==
    /\ op = "calculate_tuned_lens" /\ pc = "pairing"
    /\ gidx = 2
    /\ Len(y[1]) = 2
    /\ n_layers = 2

-----------------------------------------------------------------------------
(* logit_lens, logit_lens_correct_probs, logit_lens_all_probs *)

Decoders == {"logit_lens", "logit_lens_correct_probs", "logit_lens_all_probs"}

(* the first position logit_lens shows (line 150) *)
LensWindowStart == 47

(* lens matrices have shape [hidden, vocabulary] *)
LensMatrices == {<<W_U>>, <<[v \in TokenIds |-> (v + 1) % 3]>>}

(* res_stream @ M *)
Project(res_stream, M) ==
    [p \in 1 .. Len(res_stream) |-> [v \in TokenIds |-> res_stream[p] * M[1][v]]]

(* out_proj.argmax(-1): the first index of the largest entry *)
ArgMax(row) ==
    CHOOSE v \in TokenIds :
        \A u \in TokenIds : row[v] > row[u] \/ (row[v] = row[u] /\ v <= u)

(* out_proj.softmax(-1)[v]: exp(row[v]) / sum of exp(row[u]), kept as the  *)
(* logit and the row it is normalized over                                 *)
Softmax(row) == [v \in TokenIds |-> [logit |-> row[v], over |-> row]]

(* lines 139-142, 169-172, 201-204 *)
LensActName(lyr, n) ==
    IF lyr < n THEN get_act_name("normalized", lyr, "ln1") ELSE LnFinalNormalized

(* the result appended for a layer: lines 143-150, 173-179, 205-213 *)
lens_out(decoder, lyr, res_stream, M, lbls, pos, nbrs) ==
    LET out_proj == Project(res_stream, M)
    IN  IF decoder = "logit_lens"
        THEN [layer |-> lyr,
              row |-> PySlice([p \in 1 .. Len(out_proj) |->
                                  idx2tokens[ArgMax(out_proj[p]) + 1]],
                              LensWindowStart, num_last(lbls, ","))]
        ELSE IF decoder = "logit_lens_correct_probs"
        THEN Softmax(out_proj[pos + 1])[tokens2idx(lbls[pos + 2])]
        ELSE [key \in nbrs |-> Softmax(out_proj[pos + 1])[key]]

(* Variant: the cached activation is zeroed in place once projected. *)
lens_layer_step_in_place(decoder, lyr, n, c, ls, lbls, pos, nbrs) ==
    LET act_name == LensActName(lyr, n)
    IN  IF act_name \notin DOMAIN c \/ (~ls.is_none /\ act_name \notin DOMAIN ls.dict)
        THEN [raised |-> TRUE, act_name |-> act_name, out |-> << >>,
              cache |-> c, lenses |-> ls]
        ELSE LET M == IF ls.is_none THEN <<W_U>> ELSE ls.dict[act_name]
             IN  [raised |-> FALSE, act_name |-> act_name,
                  out |-> lens_out(decoder, lyr, c[act_name], M, lbls, pos, nbrs),
                  cache |-> [c EXCEPT ![act_name] = [p \in DOMAIN @ |-> 0]],
                  lenses |-> ls]

(* One iteration of the loop over layers (lines 138-150, 168-179,          *)
(* 200-213): the result appended for the layer, and the cache and lenses   *)
(* as they are after it.  A lookup of a missing key raises KeyError.       *)
lens_layer_step(decoder, lyr, n, c, ls, lbls, pos, nbrs) ==
    LET act_name == LensActName(lyr, n)
    IN  IF act_name \notin DOMAIN c \/ (~ls.is_none /\ act_name \notin DOMAIN ls.dict)
        THEN [raised |-> TRUE, act_name |-> act_name, out |-> << >>,
              cache |-> c, lenses |-> ls]
        ELSE [raised |-> FALSE, act_name |-> act_name,
              out |-> lens_out(decoder, lyr, c[act_name],
                               IF ls.is_none THEN <<W_U>> ELSE ls.dict[act_name],
                               lbls, pos, nbrs),
              cache |-> c, lenses |-> ls]

(* the lenses a decoder is given: none, or one matrix for each key of      *)
(* calculate_tuned_lens                                                    *)
LensChoices(n) ==
    {NoLenses} \cup
    { [is_none |-> FALSE, dict |-> d] : d \in [Range(TunedLensKeys(n)) -> LensMatrices] }

InitLens ==
    /\ op \in Decoders
    /\ pc = "start"
    /\ n_layers \in 1 .. MaxLayers
    /\ attn_w \in Weights
    /\ pred \in {g \in Instances : g.correct}
    /\ lenses \in LensChoices(n_layers)
    /\ IF op = "logit_lens" THEN lens_position = 0
       ELSE lens_position \in 0 .. (max_seq_length - 3)
    /\ IF op = "logit_lens_all_probs" THEN neighbors \in {{}, {1}, {1, 2}}
       ELSE neighbors = {}
    /\ lens_labels = << >>
    /\ lens_cache = EmptyCache
    /\ lens_layer = 0
    /\ outs = << >>
    /\ lookups = << >>
    /\ model_runs = 0
    /\ IdlePatch /\ IdleAgg /\ IdleTuned

(* lines 133-137, 163-167, 192-199 *)
LensStart ==
    /\ op \in Decoders /\ pc = "start"
    /\ \E r \in {get_example_cache(pred, n_layers, attn_w)} :
          /\ lens_labels' = r.labels
          /\ lens_cache' = r.cache
    /\ model_runs' = model_runs + 1
    /\ outs' = << >>
    /\ lens_layer' = 1
    /\ pc' = "layers"
    /\ UNCHANGED <<op, patchVars, aggVars, tunedVars, pred, lens_position, neighbors,
                   lenses, lookups>>

(* one iteration of the loop over layers *)
LensLayer ==
    /\ op \in Decoders /\ pc = "layers"
    /\ lens_layer <= n_layers
    /\ \E r \in {lens_layer_step(op, lens_layer, n_layers, lens_cache, lenses,
                                 lens_labels, lens_position, neighbors)} :
          /\ lens_cache' = r.cache
          /\ lenses' = r.lenses
          /\ lookups' = Append(lookups, r.act_name)
          /\ IF r.raised
             THEN pc' = "raised" /\ UNCHANGED <<outs, lens_layer>>
             ELSE /\ outs' = Append(outs, r.out)
                  /\ lens_layer' = lens_layer + 1
                  /\ pc' = "layers"
    /\ UNCHANGED <<op, patchVars, aggVars, tunedVars, pred, lens_position, neighbors,
                   lens_labels, model_runs>>

(* lines 151-157, 180-187, 214-223: the plot and the return *)
LensReturn ==
    /\ op \in Decoders /\ pc = "layers"
    /\ lens_layer = n_layers + 1
    /\ pc' = "done"
    /\ UNCHANGED <<op, patchVars, aggVars, tunedVars, lensVars>>

NextLens == LensStart \/ LensLayer \/ LensReturn

SpecLens == InitLens /\ [][NextLens]_vars

-----------------------------------------------------------------------------
(* Properties of the lens decoders *)

Decoding == op \in Decoders

(* C8 as stated: no step of a decoder call changes the activation cache or *)
(* the lens matrices or runs the model.                                    *)
C8_Stated ==
    [][Decoding => /\ lenses' = lenses
                   /\ pc # "start" => lens_cache' = lens_cache
                   /\ model_runs' = model_runs]_vars

(* C8 as amended: a decoder call runs the model once, in                   *)
(* get_example_cache before the loop over layers, to obtain the cache; no  *)
(* step of the loop over layers runs the model or changes the cache, and   *)
(* no step of the call changes the lens matrices.                          *)
C8_DecodingReadsOnly ==
    /\ [](Decoding /\ pc # "start" =>
            /\ model_runs = 1
            /\ lens_cache = get_example_cache(pred, n_layers, attn_w).cache)
    /\ [][Decoding => /\ lenses' = lenses
                      /\ pc = "start" => model_runs' = model_runs + 1
                      /\ pc # "start" => /\ lens_cache' = lens_cache
                                         /\ model_runs' = model_runs]_vars

(* a finished call with calibrated lenses on a two-layer model *)
C8_Witness ==
    /\ Decoding /\ pc = "done"
    /\ ~lenses.is_none
    /\ n_layers = 2
    /\ model_runs = 1

(* the probe point of the L-th result, as the claim names it *)
ProbePointOf(L) ==
    IF L <= n_layers - 1 THEN [block |-> L, point |-> "ln1", hook |-> "normalized"]
    ELSE [block |-> -1, point |-> "ln_final", hook |-> "normalized"]

(* C9: a decoder never raises; its L-th result comes from the normalized   *)
(* input of block L for L < n_layers and from the final normalized output  *)
(* for L = n_layers, projected through the lens given for that probe point *)
(* or, without lenses, through W_U; on return there are n_layers results,  *)
(* and the probe points read are exactly the keys of the lenses            *)
(* calculate_tuned_lens returns.                                           *)
C9_LayerProbePoints ==
    Decoding =>
        /\ pc # "raised"
        /\ Len(outs) = Len(lookups)
        /\ pc = "done" => Len(outs) = n_layers
        /\ \A L \in 1 .. Len(lookups) :
              LET M == IF lenses.is_none THEN <<W_U>> ELSE lenses.dict[ProbePointOf(L)]
                  probs == Softmax(Project(lens_cache[ProbePointOf(L)], M)
                                       [lens_position + 1])
              IN  /\ lookups[L] = ProbePointOf(L)
                  /\ op = "logit_lens" => outs[L].layer = L
                  /\ op = "logit_lens_correct_probs" =>
                        outs[L] = probs[tokens2idx(lens_labels[lens_position + 2])]
                  /\ op = "logit_lens_all_probs" =>
                        /\ DOMAIN outs[L] = neighbors
                        /\ \A key \in neighbors : outs[L][key] = probs[key]
        /\ (pc = "done" /\ ~lenses.is_none) => Range(lookups) = DOMAIN lenses.dict

(* a finished probability decoding with calibrated lenses on two layers *)
C9_Witness ==
    /\ op = "logit_lens_correct_probs" /\ pc = "done"
    /\ ~lenses.is_none
    /\ n_layers = 2
    /\ Len(outs) = 2

-----------------------------------------------------------------------------
(* The whole module: one call of one entry point *)

Init == InitPatch \/ InitCalib \/ InitLens

Next == NextPatch \/ NextCalib \/ NextLens

Spec == Init /\ [][Next]_vars

=============================================================================
